---- MODULE Spec2Model ----
(***************************************************************************)
(* Roller-coaster builder: the track-point store (useRollerCoaster.tsx)    *)
(* and the ride tick / section map of CoasterCar.tsx.                      *)
(*                                                                         *)
(* Numbers.  The program computes in IEEE doubles; the model computes in   *)
(* fixed point:                                                            *)
(*   - world coordinates and lengths in 1/PosScale world units,            *)
(*   - unit vectors and sines/cosines scaled by VScale,                    *)
(*   - ride progress and curve parameters scaled by PScale (PScale = 1.0), *)
(*   - speeds in 1/PosScale world units per second, frame time in ms,      *)
(*   - rideSpeed in tenths (10 = 1.0).                                     *)
(* The two double values that are no numbers, NaN and Infinity, are kept   *)
(* as the separate values NaN and Infinity, with the comparisons of the    *)
(* code (every comparison with NaN is false).                              *)
(*                                                                         *)
(* Point ids are the strings `point-${n}`; the model carries n, the        *)
(* template being injective.  null (no selection) is NullId.               *)
(***************************************************************************)
EXTENDS Integers, Sequences, FiniteSets, TLC

VARIABLES
    store,             \* the zustand state: mode, trackPoints, selectedPointId,
                       \* rideProgress, isRiding, rideSpeed, isLooped, hasChainLift
    pointCounter,      \* module-level `let pointCounter`
    maxHeightReached,  \* RideCamera ref
    frameDelta,        \* the frame time the renderer hands to useFrame (ms)
    curveMemo,         \* the cached length and the memoized firstPeakT of the
                       \* track's curve, open and closed
    camera             \* RideCamera refs: previousUp, previousRoll,
                       \* previousPitchOffset, previousFov

vars == <<store, pointCounter, maxHeightReached, frameDelta, curveMemo, camera>>

----------------------------------------------------------------------------
(* Resolution of the fixed-point model and bounds of the inputs.           *)

PosScale == 100
PScale == 100
MaxAdds == 3

NullId == 0

(* sin(k * 18 degrees), k = 1..20, scaled by 1000.                         *)
SinTable == <<309, 588, 809, 951, 1000, 951, 809, 588, 309, 0,
              -309, -588, -809, -951, -1000, -951, -809, -588, -309, 0>>
(* cos(k * 18 degrees), k = 1..20, scaled by 1000.                         *)
CosTable == <<951, 809, 588, 309, 0, -309, -588, -809, -951, -1000,
              -951, -809, -588, -309, 0, 309, 588, 809, 951, 1000>>
VScale == SinTable[5]

----------------------------------------------------------------------------
(* Arithmetic helpers.                                                     *)

(* Body applied to the value of an expression, which is evaluated once.     *)
Bind(value, Body(_)) == CHOOSE result \in {Body(v) : v \in {value}} : TRUE

Abs(a) == IF a < 0 THEN -a ELSE a
Max(a, b) == IF a >= b THEN a ELSE b
Min(a, b) == IF a <= b THEN a ELSE b

(* a / b rounded to the nearest integer, b > 0.                            *)
RDiv(a, b) == (2 * a + b) \div (2 * b)

(* floor(sqrt(n)) for 0 <= n < 2^31, by bisection of 0..46340.              *)
Isqrt(n) ==
    LET search[m \in Nat, lo \in Nat, hi \in Nat] ==
            IF lo >= hi THEN lo
            ELSE LET mid == (lo + hi + 1) \div 2
                 IN IF mid * mid <= m THEN search[m, mid, hi]
                                      ELSE search[m, lo, mid - 1]
    IN search[n, 0, 46340]

----------------------------------------------------------------------------
(* THREE.Vector3, as far as the program uses it.                           *)

Vec(x, y, z) == [x |-> x, y |-> y, z |-> z]
VAdd(a, b) ==
    Bind(<<a, b>>, LAMBDA e : Vec(e[1].x + e[2].x, e[1].y + e[2].y, e[1].z + e[2].z))
VSub(a, b) ==
    Bind(<<a, b>>, LAMBDA e : Vec(e[1].x - e[2].x, e[1].y - e[2].y, e[1].z - e[2].z))
(* v * num / den *)
VScaled(v, num, den) ==
    Bind(<<v, num, den>>,
         LAMBDA e : Vec(RDiv(e[1].x * e[2], e[3]), RDiv(e[1].y * e[2], e[3]),
                        RDiv(e[1].z * e[2], e[3])))
(* dot product of two VScale-scaled vectors, VScale-scaled *)
VDot(a, b) ==
    Bind(<<a, b>>, LAMBDA e :
        RDiv(e[1].x * e[2].x + e[1].y * e[2].y + e[1].z * e[2].z, VScale))
VLengthSq(v) == Bind(v, LAMBDA w : w.x * w.x + w.y * w.y + w.z * w.z)
VLength(v) == Isqrt(VLengthSq(v))
VDistance(a, b) == VLength(VSub(a, b))
(* Vector3.normalize() is divideScalar(length() || 1): the zero vector     *)
(* stays the zero vector.  The result is scaled by VScale.                 *)
VNormalize(v) ==
    Bind(v, LAMBDA w :
        Bind(VLength(w), LAMBDA len :
            IF len = 0 THEN Vec(0, 0, 0) ELSE VScaled(w, VScale, len)))
(* cross product of two VScale-scaled vectors, VScale-scaled *)
VCross(a, b) ==
    Bind(<<a, b>>, LAMBDA e :
        Vec(RDiv(e[1].y * e[2].z - e[1].z * e[2].y, VScale),
            RDiv(e[1].z * e[2].x - e[1].x * e[2].z, VScale),
            RDiv(e[1].x * e[2].y - e[1].y * e[2].x, VScale)))

----------------------------------------------------------------------------
(* TrackPoint and LoopMetadata.                                            *)

NoLoopMeta == [present |-> FALSE]

PlainPoint(id, position) ==
    [id |-> id, position |-> position, tilt |-> 0, loopMeta |-> NoLoopMeta]

HasLoopMeta(p) == p.loopMeta.present

Ids(points) == {points[i].id : i \in 1..Len(points)}

(* Array.prototype.findIndex, 1-based; 0 when no element matches (-1).     *)
FindIndex(points, id) ==
    IF \E i \in 1..Len(points) : points[i].id = id
    THEN CHOOSE i \in 1..Len(points) :
             /\ points[i].id = id
             /\ \A j \in 1..(i - 1) : points[j].id # id
    ELSE 0

----------------------------------------------------------------------------
(* createLoopAtPoint: the pieces of the state update.                      *)

LoopRadius == 8
TotalLoopPoints == 20
HelixSeparationTenths == 35
TransitionSamples == 3

WorldUp == Vec(0, VScale, 0)
DefaultForward == Vec(VScale, 0, 0)

(* A faulty variant: the offset from the previous point keeps its height.   *)
EntryForwardUnflattened(points, pointIndex) ==
    IF pointIndex > 1
    THEN LET d == VSub(points[pointIndex].position, points[pointIndex - 1].position)
             tenth == PosScale \div 10
         IN IF VLengthSq(d) < tenth * tenth
            THEN VNormalize(DefaultForward)
            ELSE VNormalize(d)
    ELSE DefaultForward

(* Forward direction at the entry point (1-based pointIndex): the flattened *)
(* offset from the previous point, or (1,0,0) when there is no previous     *)
(* point or the offset is shorter than 0.1.                                 *)
EntryForward(points, pointIndex) ==
    IF pointIndex > 1
    THEN LET d == VSub(points[pointIndex].position, points[pointIndex - 1].position)
             flat == Vec(d.x, 0, d.z)
             tenth == PosScale \div 10
         IN IF VLengthSq(flat) < tenth * tenth
            THEN VNormalize(DefaultForward)
            ELSE VNormalize(flat)
    ELSE DefaultForward

EntryRight(forward) == VNormalize(VCross(forward, WorldUp))

(* The position of loop point i (1..TotalLoopPoints), theta = i * 2pi/20.   *)
LoopPointPosition(i, entryPos, forward, right) ==
    LET forwardOffset == RDiv(SinTable[i] * LoopRadius * PosScale, VScale)
        verticalOffset == RDiv((VScale - CosTable[i]) * LoopRadius * PosScale, VScale)
        lateralOffset == RDiv(i * HelixSeparationTenths * PosScale, TotalLoopPoints * 10)
    IN Vec(entryPos.x + RDiv(forward.x * forwardOffset + right.x * lateralOffset, VScale),
           entryPos.y + verticalOffset,
           entryPos.z + RDiv(forward.z * forwardOffset + right.z * lateralOffset, VScale))

(* The loop points, with ids counter+1 .. counter+TotalLoopPoints.  theta   *)
(* is kept as the sample index i (theta = i * 2pi / TotalLoopPoints).       *)
LoopPoints(entryPos, forward, right, counter) ==
    [i \in 1..TotalLoopPoints |->
        [id |-> counter + i,
         position |-> LoopPointPosition(i, entryPos, forward, right),
         tilt |-> 0,
         loopMeta |-> [present |-> TRUE,
                       entryPos |-> entryPos,
                       forward |-> forward,
                       up |-> WorldUp,
                       right |-> right,
                       radius |-> LoopRadius,
                       theta |-> i]]]

(* Cubic Hermite sample at t = i/4; D0, D1 are tangents in world units.     *)
(* With t = i/4 the basis functions are these numerators over 64.           *)
hermite(i, P0, P1, D0, D1) ==
    LET h00 == 2 * i * i * i - 12 * i * i + 64
        h10 == i * i * i - 8 * i * i + 16 * i
        h01 == 12 * i * i - 2 * i * i * i
        h11 == i * i * i - 4 * i * i
    IN Vec(RDiv(h00 * P0.x + h10 * D0.x + h01 * P1.x + h11 * D1.x, 64),
           RDiv(h00 * P0.y + h10 * D0.y + h01 * P1.y + h11 * D1.y, 64),
           RDiv(h00 * P0.z + h10 * D0.z + h01 * P1.z + h11 * D1.z, 64))

(* A faulty variant: the exit blend is never emitted.                       *)
TransitionPointsNever(points, pointIndex, loopPoints, counter) == <<>>

(* The exit blend: TransitionSamples plain points between the loop exit and *)
(* the next point, none when the entry point is the last point.             *)
TransitionPoints(points, pointIndex, loopPoints, counter) ==
    IF pointIndex < Len(points)
    THEN LET entryPos == points[pointIndex].position
             nextPos == points[pointIndex + 1].position
             loopExitPos == loopPoints[Len(loopPoints)].position
             prevLoopPoint == loopPoints[Len(loopPoints) - 1].position
             loopExitTangent == VNormalize(VSub(loopExitPos, prevLoopPoint))
             originalNextTangent ==
                 IF pointIndex + 2 <= Len(points)
                 THEN VScaled(VSub(points[pointIndex + 2].position, entryPos), 1, 2)
                 ELSE VSub(nextPos, loopExitPos)
             chord1 == VDistance(loopExitPos, nextPos)
             D0_seg1 == VScaled(loopExitTangent, chord1, VScale)
             D1_seg1 == VScaled(VNormalize(originalNextTangent), chord1, VScale)
         IN [i \in 1..TransitionSamples |->
                PlainPoint(counter + i,
                           hermite(i, loopExitPos, nextPos, D0_seg1, D1_seg1))]
    ELSE <<>>

(* The state update of createLoopAtPoint(id): the new trackPoints and the   *)
(* new pointCounter.                                                        *)
CreateLoopResult(points, id, counter) ==
    LET pointIndex == FindIndex(points, id)
    IN IF pointIndex = 0
       THEN [trackPoints |-> points, pointCounter |-> counter]
       ELSE LET entryPos == points[pointIndex].position
                forward == EntryForward(points, pointIndex)
                right == EntryRight(forward)
                loopPoints == LoopPoints(entryPos, forward, right, counter)
                transitionPoints ==
                    TransitionPoints(points, pointIndex, loopPoints,
                                     counter + TotalLoopPoints)
            IN [trackPoints |->
                    SubSeq(points, 1, pointIndex) \o loopPoints \o transitionPoints
                        \o SubSeq(points, pointIndex + 1, Len(points)),
                pointCounter |-> counter + TotalLoopPoints + Len(transitionPoints)]

----------------------------------------------------------------------------
(* getTrackCurve (Track.tsx) and the THREE.CatmullRomCurve3 it returns:     *)
(* an interpolating Catmull-Rom curve through the point positions, closed   *)
(* or open.  No curve for fewer than 2 points.                              *)

ArcLengthDivisions == 20

CurveExists(points) == Len(points) >= 2

(* Control point k (0-based, any integer) of the spline: wrapped on a       *)
(* closed curve, linearly extrapolated past the ends of an open one.        *)
ControlPoint(points, closed, k) ==
    LET l == Len(points)
    IN IF closed THEN points[(k % l) + 1].position
       ELSE IF k < 0
            THEN VSub(VScaled(points[1].position, 2, 1), points[2].position)
       ELSE IF k >= l
            THEN VSub(VScaled(points[l].position, 2, 1), points[l - 1].position)
       ELSE points[k + 1].position

(* One coordinate of the uniform Catmull-Rom segment x1 -> x2 at weight w   *)
(* (scaled by PScale): x1 + t0 w + (-3x1 + 3x2 - 2t0 - t1) w^2              *)
(* + (2x1 - 2x2 + t0 + t1) w^3 with t0 = (x2-x0)/2, t1 = (x3-x1)/2,         *)
(* evaluated by Horner's rule on the doubled coefficients.                  *)
CatmullRom(x0, x1, x2, x3, w) ==
    LET c3 == 3 * x1 - x0 - 3 * x2 + x3
        c2 == 2 * x0 - 5 * x1 + 4 * x2 - x3
        c1 == x2 - x0
        c0 == 2 * x1
        h2 == c2 + RDiv(c3 * w, PScale)
        h1 == c1 + RDiv(h2 * w, PScale)
        h0 == c0 + RDiv(h1 * w, PScale)
    IN RDiv(h0, 2)

(* The segment and the weight of curve.getPoint(t): the last segment at    *)
(* weight 1 for the end of an open curve.                                   *)
SegmentAt(points, closed, t) ==
    LET l == Len(points)
        p == (IF closed THEN l ELSE l - 1) * t
        atEnd == ~closed /\ p % PScale = 0 /\ p \div PScale = l - 1
    IN IF atEnd THEN [intPoint |-> l - 2, weight |-> PScale]
       ELSE [intPoint |-> p \div PScale, weight |-> p % PScale]

(* curve.getPoint(t), t scaled by PScale, 0 <= t <= PScale.                 *)
GetPoint(points, closed, t) ==
    Bind(SegmentAt(points, closed, t), LAMBDA at :
        Bind(<<ControlPoint(points, closed, at.intPoint - 1),
               ControlPoint(points, closed, at.intPoint),
               ControlPoint(points, closed, at.intPoint + 1),
               ControlPoint(points, closed, at.intPoint + 2)>>,
             LAMBDA p :
                 Vec(CatmullRom(p[1].x, p[2].x, p[3].x, p[4].x, at.weight),
                     CatmullRom(p[1].y, p[2].y, p[3].y, p[4].y, at.weight),
                     CatmullRom(p[1].z, p[2].z, p[3].z, p[4].z, at.weight))))

(* The tangent of the curve at control point k (0-based): the derivative    *)
(* of the Catmull-Rom segment at its start, (x2 - x0) / 2, normalized.      *)
TangentAtPoint(points, closed, k) ==
    VNormalize(VSub(ControlPoint(points, closed, k + 1),
                    ControlPoint(points, closed, k - 1)))

(* curve.getTangent(t): the normalized chord of the curve around t, the     *)
(* parameters clamped to [0, 1].  Scaled by VScale.                         *)
GetTangent(points, closed, t) ==
    VNormalize(VSub(GetPoint(points, closed, Min(PScale, t + 1)),
                    GetPoint(points, closed, Max(0, t - 1))))

RECURSIVE ChordSum(_, _, _)
ChordSum(points, closed, k) ==
    IF k = 0 THEN 0
    ELSE VDistance(GetPoint(points, closed, (k * PScale) \div ArcLengthDivisions),
                   GetPoint(points, closed, ((k - 1) * PScale) \div ArcLengthDivisions))
         + ChordSum(points, closed, k - 1)

(* curve.getLength(): the sum of the chords between ArcLengthDivisions + 1  *)
(* samples of the curve.                                                    *)
GetLength(points, closed) == ChordSum(points, closed, ArcLengthDivisions)

----------------------------------------------------------------------------
(* RideCamera: firstPeakT (useMemo on the track and the closed flag).        *)

(* One iteration of the scan of firstPeakT, at parameter t: the loop's      *)
(* variables after it; done is the break.                                   *)
PeakStep(points, closed, t, scan) ==
    IF scan.done THEN scan
    ELSE Bind(<<GetPoint(points, closed, t).y, GetTangent(points, closed, t).y>>,
              LAMBDA at :
        LET height == at[1]
            slope == at[2]
            foundClimb == scan.foundClimb \/ 10 * slope > VScale
            higher == foundClimb /\ (~scan.maxSet \/ height > scan.maxHeight)
            peakT == IF higher THEN t ELSE scan.peakT
        IN [maxSet |-> scan.maxSet \/ higher,
            maxHeight |-> IF higher THEN height ELSE scan.maxHeight,
            peakT |-> peakT,
            foundClimb |-> foundClimb,
            done |-> foundClimb /\ 10 * slope < -VScale /\ t > peakT])

(* The values the loop's variables take; maxHeight = -Infinity is           *)
(* maxSet = FALSE.                                                          *)
ScanStates ==
    [maxSet : BOOLEAN, maxHeight : Int, peakT : Nat, foundClimb : BOOLEAN,
     done : BOOLEAN]

(* The iterations of for (t = 0; t <= 0.5; t += 0.01): the sum of fifty     *)
(* times the double 0.01 is 0.5000000000000002, above 0.5, so the last t    *)
(* the loop takes is the one after 49 additions, 0.49000000000000027.       *)
PeakScanSteps == 50

(* The scan for (t = 0; t <= 0.5; t += 0.01), iteration k at t = k * 0.01   *)
(* up to the rounding of the sum, and the fallback 0.2 when no peak was     *)
(* found.                                                                   *)
firstPeakT(points, closed) ==
    IF Len(points) < 2 THEN 0
    ELSE LET scanFrom[k \in Nat, scan \in ScanStates] ==
                 IF k >= PeakScanSteps \/ scan.done THEN scan
                 ELSE scanFrom[k + 1,
                               PeakStep(points, closed, k * (PScale \div 100), scan)]
             start == [maxSet |-> FALSE, maxHeight |-> 0, peakT |-> 0,
                       foundClimb |-> FALSE, done |-> FALSE]
             peakT == scanFrom[0, start].peakT
         IN IF peakT > 0 THEN peakT ELSE PScale \div 5

----------------------------------------------------------------------------
(* The store.  set(partial) merges the partial state into the state.        *)

InitialState ==
    [mode |-> "build",
     trackPoints |-> <<>>,
     selectedPointId |-> NullId,
     rideProgress |-> 0,
     isRiding |-> FALSE,
     rideSpeed |-> 10,
     isLooped |-> FALSE,
     hasChainLift |-> TRUE]

Set(state, partial) ==
    [k \in DOMAIN state |-> IF k \in DOMAIN partial THEN partial[k] ELSE state[k]]

(* Each operation as the state it leaves (and, where it draws ids, the      *)
(* pointCounter it leaves).                                                 *)

(* A faulty variant: the id taken from the length of the track instead of   *)
(* the counter, so that an id comes back after a removal.                   *)
AddTrackPointStateIdFromLength(state, position, counter) ==
    Set(state, [trackPoints |->
                   Append(state.trackPoints,
                          PlainPoint(Len(state.trackPoints) + 1, position))])

(* A faulty variant: the new point is put in front of the track.            *)
AddTrackPointStatePrepends(state, position, counter) ==
    Set(state, [trackPoints |->
                   <<PlainPoint(counter + 1, position)>> \o state.trackPoints])

AddTrackPointState(state, position, counter) ==
    Set(state, [trackPoints |->
                   Append(state.trackPoints, PlainPoint(counter + 1, position))])

(* A faulty variant: the point is rebuilt from its id and the new position, *)
(* losing its tilt and its loop metadata.                                   *)
UpdateTrackPointStateRebuilds(state, id, position) ==
    Set(state, [trackPoints |->
        [i \in 1..Len(state.trackPoints) |->
            IF state.trackPoints[i].id = id
            THEN PlainPoint(id, position)
            ELSE state.trackPoints[i]]])

UpdateTrackPointState(state, id, position) ==
    Set(state, [trackPoints |->
        [i \in 1..Len(state.trackPoints) |->
            IF state.trackPoints[i].id = id
            THEN [state.trackPoints[i] EXCEPT !.position = position]
            ELSE state.trackPoints[i]]])

UpdateTrackPointTiltState(state, id, tilt) ==
    Set(state, [trackPoints |->
        [i \in 1..Len(state.trackPoints) |->
            IF state.trackPoints[i].id = id
            THEN [state.trackPoints[i] EXCEPT !.tilt = tilt]
            ELSE state.trackPoints[i]]])

RECURSIVE FilterOut(_, _)
FilterOut(points, id) ==
    IF Len(points) = 0 THEN <<>>
    ELSE IF Head(points).id # id
         THEN <<Head(points)>> \o FilterOut(Tail(points), id)
         ELSE FilterOut(Tail(points), id)

(* A faulty variant: any removal drops the selection.                       *)
RemoveTrackPointStateDeselects(state, id) ==
    Set(state, [trackPoints |-> FilterOut(state.trackPoints, id),
                selectedPointId |-> NullId])

(* A faulty variant: the removal leaves the selection alone.                *)
RemoveTrackPointStateKeepsSelection(state, id) ==
    Set(state, [trackPoints |-> FilterOut(state.trackPoints, id)])

RemoveTrackPointState(state, id) ==
    Set(state, [trackPoints |-> FilterOut(state.trackPoints, id),
                selectedPointId |->
                    IF state.selectedPointId = id THEN NullId
                                                  ELSE state.selectedPointId])

(* A faulty variant: the loop insertion drops the selection, as             *)
(* removeTrackPoint does.                                                   *)
CreateLoopStateDeselecting(state, id, counter) ==
    IF FindIndex(state.trackPoints, id) = 0
    THEN state
    ELSE Set(state, [trackPoints |->
                        CreateLoopResult(state.trackPoints, id, counter).trackPoints,
                     selectedPointId |-> NullId])

CreateLoopState(state, id, counter) ==
    IF FindIndex(state.trackPoints, id) = 0
    THEN state
    ELSE Set(state, [trackPoints |->
                        CreateLoopResult(state.trackPoints, id, counter).trackPoints])

SelectPointState(state, id) == Set(state, [selectedPointId |-> id])

(* A faulty variant: clearing the track leaves a ride running.              *)
ClearTrackStateKeepsRide(state) ==
    Set(state, [trackPoints |-> <<>>, selectedPointId |-> NullId, rideProgress |-> 0])

ClearTrackState(state) ==
    Set(state, [trackPoints |-> <<>>, selectedPointId |-> NullId,
                rideProgress |-> 0, isRiding |-> FALSE])

(* A faulty variant: a ride is started on a single point.                   *)
StartRideStateOnePoint(state) ==
    IF Len(state.trackPoints) >= 1
    THEN Set(state, [mode |-> "ride", isRiding |-> TRUE, rideProgress |-> 0])
    ELSE state

StartRideState(state) ==
    IF Len(state.trackPoints) >= 2
    THEN Set(state, [mode |-> "ride", isRiding |-> TRUE, rideProgress |-> 0])
    ELSE state

StopRideState(state) ==
    Set(state, [mode |-> "build", isRiding |-> FALSE, rideProgress |-> 0])

----------------------------------------------------------------------------
(* Tracks for the ride, built with the store's own operations.              *)

PosA == Vec(0, 0, 0)
PosB == Vec(10 * PosScale, 5 * PosScale, 0)
PosC == Vec(20 * PosScale, 0, 0)
PosD == Vec(0, 0 - 2 * PosScale, 0)
PosE == Vec(10 * PosScale, 0 - 2 * PosScale, 0)
PosF == Vec(0, 10 * PosScale, 0)

RECURSIVE AddAll(_, _, _)
AddAll(state, counter, positions) ==
    IF Len(positions) = 0 THEN state
    ELSE AddAll(AddTrackPointState(state, Head(positions), counter), counter + 1,
                Tail(positions))

BuiltTrack(positions) == AddAll(InitialState, 0, positions).trackPoints

TrackOne == BuiltTrack(<<PosA>>)
TrackCoincident == BuiltTrack(<<PosA, PosA>>)
TrackRise == BuiltTrack(<<PosA, PosB>>)
TrackHill == BuiltTrack(<<PosA, PosB, PosC>>)
TrackWithLoop == CreateLoopResult(TrackHill, 2, 3).trackPoints
(* A level track below the height 0. *)
TrackLevel == BuiltTrack(<<PosD, PosE>>)

(* A track straight up. *)
TrackClimb == BuiltTrack(<<PosA, PosF>>)

RideTracks == {TrackOne, TrackCoincident, TrackRise, TrackWithLoop, TrackLevel}
(* The tracks whose rides are taken with the settings changed under way,    *)
(* and the tracks whose rides are taken with the settings they start with.  *)
SettingsTracks == RideTracks \ {TrackWithLoop}
CameraTracks == {TrackWithLoop, TrackClimb}


(* curve.getPoint(progress).y *)
CurveHeight(points, closed, progress) == GetPoint(points, closed, progress).y

(* What is kept of a curve between the frames: the curve caches its arc     *)
(* length, RideCamera memoizes firstPeakT on the track and the closed flag. *)
(* Both are functions of the track and the flag alone.  The memo holds them *)
(* for the track as it is, per flag; it is dropped when the track changes   *)
(* and filled where a frame finds it empty.                                 *)
NoCurveData == [valid |-> FALSE, length |-> 0, firstPeakT |-> 0]
NoMemo == [closed \in BOOLEAN |-> NoCurveData]
CurveData(points, closed) ==
    [valid |-> TRUE, length |-> GetLength(points, closed),
     firstPeakT |-> firstPeakT(points, closed)]
Memoized(memo, points, closed) ==
    IF memo[closed].valid THEN memo[closed] ELSE CurveData(points, closed)
FullMemo(points) ==
    IF CurveExists(points) THEN [closed \in BOOLEAN |-> CurveData(points, closed)]
    ELSE NoMemo

----------------------------------------------------------------------------
(* Doubles that are no numbers.  Progress values are >= 0; the two codes    *)
(* below stand for NaN and Infinity.                                        *)

NaN == 0 - 1
Infinity == 0 - 2

IsNumber(a) == a >= 0

(* a >= 1.0, as the code compares: false for NaN, true for Infinity.        *)
AtLeastOne(a) == a = Infinity \/ (IsNumber(a) /\ a >= PScale)

(* a < b for a progress value a and a number b: false for NaN.              *)
LessThan(a, b) == IsNumber(a) /\ a < b

(* a % 1: NaN for NaN and for Infinity.                                     *)
ModOne(a) == IF IsNumber(a) THEN a % PScale ELSE NaN

(* a + d for a number a and a delta d that may be NaN or Infinity.          *)
PlusDelta(a, d) == IF IsNumber(d) THEN a + d ELSE d

(* (n * num) / den without leaving 32 bits, n, num, den >= 0, den > 0.      *)
MulDiv(n, num, den) == (n \div den) * num + ((n % den) * num) \div den

----------------------------------------------------------------------------
(* Configuration (lib/config/scale), tunable constants whose values the     *)
(* source imports; the model takes positive values.  Speeds in hundredths   *)
(* of a world unit per second, factors in tenths.                           *)

CHAIN_SPEED == 90
MIN_RIDE_SPEED == 100
LOOP_MIN_SPEED == 300
LOOP_SPEED_BOOST == 12
GRAVITY_SCALE == 10
(* The lerp factor of the camera, in tenths; with 1.0 every smoothed value  *)
(* is at its target after one frame.                                        *)
CAMERA_LERP == 10

----------------------------------------------------------------------------
(* CoasterCar: the sections useMemo.                                        *)

(* The value of a field the store does not define.                          *)
Undefined == "undefined"

(* const { trackPoints, loopSegments, ... } = useRollerCoaster(): the store *)
(* state has no loopSegments, the destructuring yields undefined.           *)
LoopSegmentsOf(state) ==
    IF "loopSegments" \in DOMAIN state THEN state.loopSegments ELSE Undefined

SubSamples == 10
TwoPiThousandths == 6283
SectionOne == PScale * PScale

(* 2 * Math.PI * radius, in 1/PosScale world units.                         *)
LoopArcLength(radius) == (TwoPiThousandths * radius * PosScale) \div 1000

(* The sub-sampled length of spline segment i (0-based).                    *)
RECURSIVE SplineSegmentLength(_, _, _, _, _)
SplineSegmentLength(points, closed, i, totalSplineSegments, s) ==
    IF s = SubSamples THEN 0
    ELSE LET t1 == (PScale * (i * SubSamples + s)) \div (SubSamples * totalSplineSegments)
             t2 == (PScale * (i * SubSamples + s + 1)) \div (SubSamples * totalSplineSegments)
         IN VDistance(GetPoint(points, closed, t1), GetPoint(points, closed, t2))
                + SplineSegmentLength(points, closed, i, totalSplineSegments, s + 1)

(* loopMap.get(point.id): the last segment of loopSegments with that entry  *)
(* point, if any.                                                           *)
LoopInfo(segs, id) ==
    LET hits == {k \in 1..Len(segs) : segs[k].entryPointId = id}
    IN IF hits = {} THEN [found |-> FALSE]
       ELSE [found |-> TRUE,
             segment |-> segs[CHOOSE k \in hits : \A j \in hits : j <= k]]

(* What the loop over the points emits for point i (1-based): a loop        *)
(* section, a spline section, or nothing for the last point of an open      *)
(* track.                                                                   *)
SectionAt(points, segs, closed, i) ==
    LET numPoints == Len(points)
        totalSplineSegments == IF closed THEN numPoints ELSE numPoints - 1
        loopInfo == LoopInfo(segs, points[i].id)
    IN IF loopInfo.found
       THEN [emitted |-> TRUE, type |-> "loop",
             arcLength |-> LoopArcLength(loopInfo.segment.radius), point |-> i]
       ELSE IF i >= numPoints /\ ~closed
            THEN [emitted |-> FALSE]
            ELSE [emitted |-> TRUE, type |-> "spline",
                  arcLength |-> SplineSegmentLength(points, closed, i - 1,
                                                    totalSplineSegments, 0),
                  point |-> i]

RECURSIVE ArcLengthSum(_, _)
ArcLengthSum(sections, k) ==
    IF k = 0 THEN 0 ELSE sections[k].arcLength + ArcLengthSum(sections, k - 1)

(* runningLength / accumulatedLength, in 1/SectionOne; 0/0 is NaN.          *)
SectionProgress(runningLength, accumulatedLength) ==
    IF accumulatedLength = 0 THEN NaN
    ELSE MulDiv(runningLength, SectionOne, accumulatedLength)

(* The sections memo: threw is the TypeError of iterating over a            *)
(* loopSegments that is undefined.                                          *)
Sections(points, segs, closed) ==
    IF Len(points) < 2 THEN [threw |-> FALSE, sections |-> <<>>]
    ELSE IF segs = Undefined THEN [threw |-> TRUE, sections |-> <<>>]
    ELSE LET Emitted(section) == section.emitted
             emitted == SelectSeq([i \in 1..Len(points) |->
                                      SectionAt(points, segs, closed, i)], Emitted)
             accumulatedLength == ArcLengthSum(emitted, Len(emitted))
         IN [threw |-> FALSE,
             sections |->
                 [k \in 1..Len(emitted) |->
                     [type |-> emitted[k].type,
                      arcLength |-> emitted[k].arcLength,
                      point |-> emitted[k].point,
                      startProgress |->
                          SectionProgress(ArcLengthSum(emitted, k - 1), accumulatedLength),
                      endProgress |->
                          SectionProgress(ArcLengthSum(emitted, k), accumulatedLength)]]]

(* The sections of the track as CoasterCar renders it.                      *)
SectionsOf(state) ==
    Sections(state.trackPoints, LoopSegmentsOf(state), state.isLooped)

----------------------------------------------------------------------------
(* CoasterCar: sampleHybridTrack and the frame.  Section progress and the   *)
(* local parameter of a section are scaled by SectionOne.                   *)

(* No sample (null); threw is a TypeError out of curve.getPoint.            *)
NoSample ==
    [present |-> FALSE, threw |-> FALSE, numeric |-> FALSE,
     point |-> Vec(0, 0, 0), tangent |-> Vec(0, 0, 0), up |-> Vec(0, 0, 0)]
SampleThrows == [NoSample EXCEPT !.threw = TRUE]
(* A sample whose coordinates are NaN.                                      *)
SampleOfNaN == [NoSample EXCEPT !.present = TRUE]

(* A faulty variant: the clamp to [0, 1].                                   *)
ClampProgressToOne(progress) ==
    IF progress = NaN THEN NaN
    ELSE IF progress = Infinity THEN SectionOne
    ELSE Max(0, Min(progress * (SectionOne \div PScale), SectionOne))

(* Math.max(0, Math.min(progress, 0.9999)): NaN stays NaN.  A progress      *)
(* below -Infinity's code is a negative number.                             *)
ClampProgress(progress) ==
    IF progress = NaN THEN NaN
    ELSE IF progress = Infinity THEN SectionOne - 1
    ELSE Max(0, Min(progress * (SectionOne \div PScale), SectionOne - 1))

(* The first section with startProgress <= progress < endProgress, else the *)
(* last section (1-based index).                                            *)
SectionIndex(progress, sections) ==
    LET Holds(k) ==
            /\ IsNumber(progress)
            /\ IsNumber(sections[k].startProgress)
            /\ IsNumber(sections[k].endProgress)
            /\ progress >= sections[k].startProgress
            /\ progress < sections[k].endProgress
        hits == {k \in 1..Len(sections) : Holds(k)}
    IN IF hits = {} THEN Len(sections)
       ELSE CHOOSE k \in hits : \A j \in hits : k <= j

(* (progress - start) / (end - start); NaN stands for every result that is  *)
(* no finite number.                                                        *)
LocalT(progress, section) ==
    IF \/ ~IsNumber(progress)
       \/ ~IsNumber(section.startProgress)
       \/ ~IsNumber(section.endProgress)
       \/ section.endProgress = section.startProgress
    THEN NaN
    ELSE ((progress - section.startProgress) * SectionOne)
             \div (section.endProgress - section.startProgress)

(* sampleLoopAnalytically at theta = localT * 2 pi, theta taken down to the *)
(* step of the sine table.                                                  *)
SampleLoopAnalytically(segment, localT) ==
    LET k == (localT * TotalLoopPoints) \div SectionOne
        sin == IF k = 0 THEN 0 ELSE SinTable[k]
        cos == IF k = 0 THEN VScale ELSE CosTable[k]
        reach == segment.radius * PosScale
        Along(f, u) == RDiv(f * sin * reach + u * (VScale - cos) * reach, VScale * VScale)
    IN [present |-> TRUE, threw |-> FALSE, numeric |-> TRUE,
        point |-> Vec(segment.entryPos.x + Along(segment.forward.x, segment.up.x),
                      segment.entryPos.y + Along(segment.forward.y, segment.up.y),
                      segment.entryPos.z + Along(segment.forward.z, segment.up.z)),
        tangent |-> VNormalize(VAdd(VScaled(segment.forward, cos, VScale),
                                    VScaled(segment.up, sin, VScale))),
        up |-> VNormalize(VAdd(VScaled(segment.forward, 0 - sin, VScale),
                               VScaled(segment.up, cos, VScale)))]

(* The up vector of a spline sample: world up made orthogonal to the        *)
(* tangent, or the x axis made orthogonal where that is too short           *)
(* (lengthSq() > 0.001).                                                    *)
SplineUp(tangent) ==
    LET Orthogonal(v) ==
            VSub(v, VScaled(tangent, VDot(v, tangent), VScale))
        up == Orthogonal(WorldUp)
    IN IF VLengthSq(up) * 1000 > VScale * VScale
       THEN VNormalize(up)
       ELSE VNormalize(Orthogonal(DefaultForward))

SampleSpline(section, localT, points, closed) ==
    LET totalSplineSegments == IF closed THEN Len(points) ELSE Len(points) - 1
        splineT == (((section.point - 1) * SectionOne + localT) * PScale)
                       \div (SectionOne * totalSplineSegments)
    IN Bind(VNormalize(GetTangent(points, closed, splineT)), LAMBDA tangent :
           [present |-> TRUE, threw |-> FALSE, numeric |-> TRUE,
            point |-> GetPoint(points, closed, splineT),
            tangent |-> tangent,
            up |-> SplineUp(tangent)])

sampleHybridTrack(progress, sections, segs, points, closed) ==
    IF Len(sections) = 0 THEN NoSample
    ELSE Bind(ClampProgress(progress), LAMBDA clamped :
        Bind(sections[SectionIndex(clamped, sections)], LAMBDA section :
            Bind(LocalT(clamped, section), LAMBDA localT :
                IF section.type = "loop"
                THEN IF IsNumber(localT)
                     THEN SampleLoopAnalytically(
                              LoopInfo(segs, points[section.point].id).segment, localT)
                     ELSE SampleOfNaN
                ELSE IF IsNumber(localT)
                     THEN SampleSpline(section, localT, points, closed)
                     ELSE SampleThrows)))

(* The pose of the car's mesh: where it is and the two vectors its three    *)
(* rotation angles are computed from.  NoPose is the mesh as it is created. *)
(* With the store as it is no frame ever gets as far as a sample (the       *)
(* sections memo is empty or throws), so the pose is an argument of the     *)
(* frame here and no variable.                                              *)
NoPose ==
    [posed |-> FALSE, numeric |-> TRUE, position |-> Vec(0, 0, 0),
     tangent |-> Vec(0, 0, 0), up |-> Vec(0, 0, 0)]

PoseOf(sample) ==
    [posed |-> TRUE, numeric |-> sample.numeric,
     position |-> VAdd(sample.point, VScaled(sample.up, 0 - 3 * PosScale, 10 * VScale)),
     tangent |-> sample.tangent, up |-> sample.up]

(* A faulty variant: a frame without a sample puts the car at the origin.   *)
CarFrameResets(state, pose) ==
    IF ~state.isRiding \/ state.mode # "ride" THEN pose
    ELSE IF ~CurveExists(state.trackPoints) THEN NoPose
    ELSE pose

(* One frame of CoasterCar's useFrame, as the pose it leaves.  The mesh is  *)
(* there only while isRiding and mode is "ride"; a component whose sections *)
(* memo threw has not rendered and runs no frame.                           *)
CarFrame(state, pose) ==
    IF ~state.isRiding \/ state.mode # "ride" THEN pose
    ELSE IF ~CurveExists(state.trackPoints) THEN pose
    ELSE Bind(SectionsOf(state), LAMBDA built :
        IF built.threw \/ Len(built.sections) = 0 THEN pose
        ELSE Bind(sampleHybridTrack(state.rideProgress, built.sections,
                                    LoopSegmentsOf(state), state.trackPoints,
                                    state.isLooped),
                  LAMBDA sample :
                      IF ~sample.present THEN pose ELSE PoseOf(sample)))

----------------------------------------------------------------------------
(* RideCamera.                                                              *)

(* Height of the curve's start point (the useEffect on isRiding and the     *)
(* wrap of a closed track take it).                                         *)
StartHeight(points, closed) == CurveHeight(points, closed, 0)

(* A faulty variant: the start of a ride leaves maxHeightReached as it was. *)
RideStartEffectKeeps(points, closed, wasRiding, nowRiding, maxHeight) == maxHeight

(* The useEffect on [isRiding]: when a ride starts and there is a curve,    *)
(* maxHeightReached is set to the start height.                             *)
RideStartEffect(points, closed, wasRiding, nowRiding, maxHeight) ==
    IF nowRiding /\ ~wasRiding /\ CurveExists(points)
    THEN StartHeight(points, closed)
    ELSE maxHeight

(* Is the track point under the given progress flagged as inside a loop?    *)
IsInLoopAt(points, progress) ==
    LET totalPoints == Len(points)
        approxPointIndex == (progress * (totalPoints - 1)) \div PScale
    IN HasLoopMeta(points[Min(approxPointIndex, totalPoints - 1) + 1])

InChainLift(curve, chain, progress) ==
    chain /\ LessThan(progress, curve.firstPeakT)

(* sqrt(2 * gravity * max(0, heightDrop)), gravity = 9.8 * GRAVITY_SCALE.   *)
EnergySpeed(heightDrop) ==
    Isqrt(((196 * GRAVITY_SCALE * Max(0, heightDrop)) \div 100) * PosScale)

(* A faulty variant: no minimum speed inside a loop.                        *)
TickSpeedNoLoopFloor(points, closed, curve, chain, progress, speedFactor, maxHeight) ==
    IF InChainLift(curve, chain, progress)
    THEN (CHAIN_SPEED * PosScale * speedFactor) \div 1000
    ELSE Bind(CurveHeight(points, closed, progress), LAMBDA currentHeight :
        Bind(EnergySpeed(Max(maxHeight, currentHeight) - currentHeight), LAMBDA free :
            LET energySpeed ==
                    IF IsInLoopAt(points, progress)
                    THEN (free * LOOP_SPEED_BOOST) \div 10
                    ELSE free
            IN (Max((MIN_RIDE_SPEED * PosScale) \div 100, energySpeed) * speedFactor)
                   \div 10))

(* The speed of one tick, in 1/PosScale world units per second.             *)
TickSpeed(points, closed, curve, chain, progress, speedFactor, maxHeight) ==
    IF InChainLift(curve, chain, progress)
    THEN (CHAIN_SPEED * PosScale * speedFactor) \div 1000
    ELSE Bind(CurveHeight(points, closed, progress), LAMBDA currentHeight :
        Bind(EnergySpeed(Max(maxHeight, currentHeight) - currentHeight), LAMBDA free :
            LET energySpeed ==
                    IF IsInLoopAt(points, progress)
                    THEN Max((LOOP_MIN_SPEED * PosScale) \div 100,
                             (free * LOOP_SPEED_BOOST) \div 10)
                    ELSE free
            IN (Max((MIN_RIDE_SPEED * PosScale) \div 100, energySpeed) * speedFactor)
                   \div 10))

(* (speed * delta) / curveLength: NaN for 0/0, Infinity for x/0.            *)
ProgressDelta(speed, delta, curveLength) ==
    IF curveLength = 0
    THEN IF speed * delta = 0 THEN NaN ELSE Infinity
    ELSE MulDiv(speed * delta, PScale, 1000) \div curveLength

(* newProgress = rideProgress + progressDelta, before the wrap-or-stop.     *)
NewProgress(points, closed, curve, chain, progress, speedFactor, maxHeight, delta) ==
    PlusDelta(progress,
              ProgressDelta(TickSpeed(points, closed, curve, chain, progress,
                                      speedFactor, maxHeight),
                            delta, curve.length))

(* A faulty variant: the end of the track wraps whether or not the track is *)
(* closed.                                                                  *)
TickResultWrapsOpen(points, closed, curve, chain, progress, speedFactor, maxHeight, delta) ==
    Bind(<<Max(maxHeight, CurveHeight(points, closed, progress)),
           NewProgress(points, closed, curve, chain, progress, speedFactor, maxHeight,
                       delta)>>,
         LAMBDA at :
             LET raised == at[1]
                 newProgress == at[2]
             IN [stop |-> FALSE,
                 rideProgress |-> IF AtLeastOne(newProgress) THEN ModOne(newProgress)
                                                             ELSE newProgress,
                 maxHeightReached |->
                     IF AtLeastOne(newProgress) /\ chain
                     THEN StartHeight(points, closed) ELSE raised])

(* A faulty variant: the wrap re-arms maxHeightReached without looking at   *)
(* hasChainLift.                                                            *)
TickResultRearmsAlways(points, closed, curve, chain, progress, speedFactor, maxHeight, delta) ==
    Bind(<<Max(maxHeight, CurveHeight(points, closed, progress)),
           NewProgress(points, closed, curve, chain, progress, speedFactor, maxHeight,
                       delta)>>,
         LAMBDA at :
             LET raised == at[1]
                 newProgress == at[2]
             IN IF AtLeastOne(newProgress)
                THEN IF closed
                     THEN [stop |-> FALSE, rideProgress |-> ModOne(newProgress),
                           maxHeightReached |-> StartHeight(points, closed)]
                     ELSE [stop |-> TRUE, rideProgress |-> 0,
                           maxHeightReached |-> raised]
                ELSE [stop |-> FALSE, rideProgress |-> newProgress,
                      maxHeightReached |-> raised])

(* What one frame of RideCamera's useFrame writes, for a running ride on an *)
(* existing curve: stop is the call of stopRide(), otherwise rideProgress   *)
(* goes to setRideProgress.  maxHeightReached is the ref after the frame:   *)
(* the speed computation raises it to the current height, the wrap of a     *)
(* closed track with chain lift sets it to the start height.                *)
TickResult(points, closed, curve, chain, progress, speedFactor, maxHeight, delta) ==
    Bind(<<Max(maxHeight, CurveHeight(points, closed, progress)),
           NewProgress(points, closed, curve, chain, progress, speedFactor, maxHeight,
                       delta)>>,
         LAMBDA at :
             LET raised == at[1]
                 newProgress == at[2]
             IN IF AtLeastOne(newProgress)
                THEN IF closed
                     THEN [stop |-> FALSE, rideProgress |-> ModOne(newProgress),
                           maxHeightReached |->
                               IF chain THEN StartHeight(points, closed) ELSE raised]
                     ELSE [stop |-> TRUE, rideProgress |-> 0,
                           maxHeightReached |-> raised]
                ELSE [stop |-> FALSE, rideProgress |-> newProgress,
                      maxHeightReached |-> raised])

----------------------------------------------------------------------------
(* RideCamera: the camera frame.  previousUp is a unit vector scaled by     *)
(* VScale, previousRoll and previousPitchOffset are in thousandths of a     *)
(* radian, previousFov in tenths of a degree.  The smoothed position and    *)
(* the camera's own position and quaternion are written by the frame and    *)
(* read by nothing but the renderer; they are left out.                     *)

BaseFov == 750

(* The refs as useRef creates them. *)
CameraDefaults ==
    [previousUp |-> WorldUp, previousRoll |-> 0, previousPitchOffset |-> 0,
     previousFov |-> BaseFov]

(* previous + (target - previous) * CAMERA_LERP *)
Lerp(previous, target) == previous + RDiv((target - previous) * CAMERA_LERP, 10)

(* The useEffect on [isRiding], for the camera: when a ride starts and      *)
(* there is a curve, previousUp is set to (0, 1, 0).  The effect writes no  *)
(* other ref of the camera.                                                 *)
RideStartCamera(points, wasRiding, nowRiding, refs) ==
    IF nowRiding /\ ~wasRiding /\ CurveExists(points)
    THEN [refs EXCEPT !.previousUp = WorldUp]
    ELSE refs

(* v minus its component along the tangent, both scaled by VScale; the     *)
(* result is scaled by 10 * VScale, which keeps the direction of a short    *)
(* result.  The tangent of the model has length 1 up to its resolution      *)
(* only, so v is weighted with the squared length of the tangent: the       *)
(* result is across the tangent exactly, as it is for a unit tangent.  A    *)
(* tangent that normalize() left at zero takes nothing off v.               *)
ProjectOff(v, tangent) ==
    Bind(<<v, tangent, VLengthSq(tangent),
           v.x * tangent.x + v.y * tangent.y + v.z * tangent.z>>,
         LAMBDA e :
             IF e[3] = 0 THEN VScaled(e[1], 10, 1)
             ELSE
             Vec(RDiv((e[1].x * e[3] - e[2].x * e[4]) \div 10, 10 * VScale),
                 RDiv((e[1].y * e[3] - e[2].y * e[4]) \div 10, 10 * VScale),
                 RDiv((e[1].z * e[3] - e[2].z * e[4]) \div 10, 10 * VScale)))

(* Parallel transport of the up vector onto the plane across the tangent:   *)
(* the previous up without its component along the tangent, normalized if   *)
(* longer than 0.01, else world up treated the same way; then, outside a    *)
(* loop and on track less steep than 0.7, negated if it points down.        *)
TransportUp(previousUp, tangent, isInLoop) ==
    Bind(ProjectOff(previousUp, tangent), LAMBDA upVector :
        Bind(IF 10 * VLength(upVector) > VScale
             THEN VNormalize(upVector)
             ELSE VNormalize(ProjectOff(WorldUp, tangent)),
             LAMBDA up :
                 IF ~isInLoop /\ 10 * Abs(tangent.y) < 7 * VScale /\ up.y < 0
                 THEN VScaled(up, -1, 1)
                 ELSE up))

(* getTrackTiltAtProgress(points, progress, closed), in tenths of a degree: *)
(* the tilt of the track points interpolated as the positions are, the tilt *)
(* of the nearest end taken past the ends of an open track.                 *)
ControlTilt(points, closed, k) ==
    LET l == Len(points)
    IN IF closed THEN points[(k % l) + 1].tilt
       ELSE points[Min(Max(k, 0), l - 1) + 1].tilt

getTrackTiltAtProgress(points, progress, closed) ==
    Bind(SegmentAt(points, closed, progress), LAMBDA at :
        CatmullRom(10 * ControlTilt(points, closed, at.intPoint - 1),
                   10 * ControlTilt(points, closed, at.intPoint),
                   10 * ControlTilt(points, closed, at.intPoint + 1),
                   10 * ControlTilt(points, closed, at.intPoint + 2), at.weight))

(* The smoothed roll: 0 when |tilt| < 0.5 degrees, else lerped towards the  *)
(* tilt in radians; 0 again when below 0.01.                                *)
NextRoll(previousRoll, tilt) ==
    Bind(IF Abs(tilt) < 5 THEN 0
         ELSE Lerp(previousRoll, RDiv(tilt * TwoPiThousandths, 3600)),
         LAMBDA roll : IF Abs(roll) < 10 THEN 0 ELSE roll)

(* slopeIntensity = max(0, -tangent.y), scaled by VScale *)
SlopeIntensity(tangent) == Max(0, 0 - tangent.y)

(* The part of the frame after setRideProgress(newProgress): the refs of    *)
(* the camera it leaves.  With a new progress that is no number             *)
(* curve.getPoint throws before a ref is written.                           *)
CameraFrame(points, closed, newProgress, refs) ==
    IF ~IsNumber(newProgress) THEN refs
    ELSE Bind(GetTangent(points, closed, newProgress), LAMBDA tangent :
             [previousUp |->
                  TransportUp(refs.previousUp, tangent, IsInLoopAt(points, newProgress)),
              previousRoll |->
                  NextRoll(refs.previousRoll,
                           getTrackTiltAtProgress(points, newProgress, closed)),
              previousPitchOffset |->
                  Lerp(refs.previousPitchOffset, RDiv(SlopeIntensity(tangent), 4)),
              previousFov |->
                  Lerp(refs.previousFov,
                       BaseFov + RDiv(SlopeIntensity(tangent) * 150, VScale))])

----------------------------------------------------------------------------
(* A faulty variant: the frame does not look at isRiding.                   *)
TickRunsAlways(state) ==
    CurveExists(state.trackPoints) /\ IsNumber(state.rideProgress)

(* One frame of RideCamera's useFrame with frame time delta, as the state   *)
(* it leaves.  The frame returns at once when no ride is running or there   *)
(* is no curve; with a progress that is no number curve.getPoint throws     *)
(* before anything is written.                                              *)
TickRuns(state) ==
    state.isRiding /\ CurveExists(state.trackPoints) /\ IsNumber(state.rideProgress)

TickOf(state, memo, maxHeight, delta) ==
    Bind(Memoized(memo, state.trackPoints, state.isLooped), LAMBDA curve :
        TickResult(state.trackPoints, state.isLooped, curve, state.hasChainLift,
                   state.rideProgress, state.rideSpeed, maxHeight, delta))

TickState(state, memo, maxHeight, delta) ==
    IF ~TickRuns(state) THEN state
    ELSE Bind(TickOf(state, memo, maxHeight, delta), LAMBDA r :
             IF r.stop THEN StopRideState(state)
             ELSE Set(state, [rideProgress |-> r.rideProgress]))

TickMaxHeight(state, memo, maxHeight, delta) ==
    IF ~TickRuns(state) THEN maxHeight
    ELSE TickOf(state, memo, maxHeight, delta).maxHeightReached

----------------------------------------------------------------------------
(* Inputs.                                                                  *)

PositionInputs == {PosA, PosB}
TiltInputs == {0, 15}
SpeedInputs == {0, 10}
DeltaInputs == {0, 10000}

(* An id the bounded model never issues. *)
GhostId == MaxAdds + 2 * (TotalLoopPoints + TransitionSamples) + 1
ArgIds == (1..MaxAdds) \cup {GhostId}
UpdateIds == {1, GhostId}
(* With MaxAdds + 1 the tilt can be set on a point of a loop: the first     *)
(* loop of a track always has a point of that id.                           *)
TiltIds == UpdateIds \cup {MaxAdds + 1}
SelectIds == {NullId, 1, GhostId}

----------------------------------------------------------------------------
(* The store's operations.  The components re-render and run their effects  *)
(* before the next frame, so each operation carries the effects with it.    *)

addTrackPoint(position) ==
    /\ pointCounter < MaxAdds
    /\ store' = AddTrackPointState(store, position, pointCounter)
    /\ pointCounter' = pointCounter + 1
    /\ curveMemo' = NoMemo
    /\ UNCHANGED <<maxHeightReached, frameDelta, camera>>

updateTrackPoint(id, position) ==
    /\ store' = UpdateTrackPointState(store, id, position)
    /\ curveMemo' = NoMemo
    /\ UNCHANGED <<pointCounter, maxHeightReached, frameDelta, camera>>

updateTrackPointTilt(id, tilt) ==
    /\ store' = UpdateTrackPointTiltState(store, id, tilt)
    /\ curveMemo' = NoMemo
    /\ UNCHANGED <<pointCounter, maxHeightReached, frameDelta, camera>>

removeTrackPoint(id) ==
    /\ store' = RemoveTrackPointState(store, id)
    /\ curveMemo' = NoMemo
    /\ UNCHANGED <<pointCounter, maxHeightReached, frameDelta, camera>>

createLoopAtPoint(id) ==
    /\ pointCounter <= MaxAdds + 1
    /\ store' = CreateLoopState(store, id, pointCounter)
    /\ pointCounter' = CreateLoopResult(store.trackPoints, id, pointCounter).pointCounter
    /\ curveMemo' = NoMemo
    /\ UNCHANGED <<maxHeightReached, frameDelta, camera>>

selectPoint(id) ==
    /\ store' = SelectPointState(store, id)
    /\ UNCHANGED <<pointCounter, maxHeightReached, frameDelta, curveMemo, camera>>

clearTrack ==
    /\ store' = ClearTrackState(store)
    /\ curveMemo' = NoMemo
    /\ UNCHANGED <<pointCounter, maxHeightReached, frameDelta, camera>>

setRideSpeed(speed) ==
    /\ store' = Set(store, [rideSpeed |-> speed])
    /\ UNCHANGED <<pointCounter, maxHeightReached, frameDelta, curveMemo, camera>>

setIsLooped(looped) ==
    /\ store' = Set(store, [isLooped |-> looped])
    /\ UNCHANGED <<pointCounter, maxHeightReached, frameDelta, curveMemo, camera>>

setHasChainLift(hasChain) ==
    /\ store' = Set(store, [hasChainLift |-> hasChain])
    /\ UNCHANGED <<pointCounter, maxHeightReached, frameDelta, curveMemo, camera>>

startRide ==
    /\ store' = StartRideState(store)
    /\ maxHeightReached' =
           RideStartEffect(store.trackPoints, store.isLooped, store.isRiding,
                           StartRideState(store).isRiding, maxHeightReached)
    /\ camera' = RideStartCamera(store.trackPoints, store.isRiding,
                                 StartRideState(store).isRiding, camera)
    /\ UNCHANGED <<pointCounter, frameDelta, curveMemo>>

stopRide ==
    /\ store' = StopRideState(store)
    /\ UNCHANGED <<pointCounter, maxHeightReached, frameDelta, curveMemo, camera>>

Tick(delta) ==
    /\ TickRuns(store)
    /\ \E curve \in {Memoized(curveMemo, store.trackPoints, store.isLooped)} :
           /\ curveMemo' = [curveMemo EXCEPT ![store.isLooped] = curve]
           /\ \E r \in {TickOf(store, curveMemo', maxHeightReached, delta)} :
                  /\ store' = IF r.stop THEN StopRideState(store)
                               ELSE Set(store, [rideProgress |-> r.rideProgress])
                  /\ maxHeightReached' = r.maxHeightReached
                  /\ camera' = IF r.stop THEN camera
                               ELSE CameraFrame(store.trackPoints, store.isLooped,
                                                r.rideProgress, camera)
    /\ UNCHANGED <<pointCounter, frameDelta>>

----------------------------------------------------------------------------
(* The editor: the operations of the store on the track, from the empty     *)
(* track.                                                                   *)

Init ==
    /\ store = InitialState
    /\ pointCounter = 0
    /\ maxHeightReached = 0
    /\ frameDelta = 0
    /\ curveMemo = NoMemo
    /\ camera = CameraDefaults

Next ==
    \/ \E position \in PositionInputs : addTrackPoint(position)
    \/ \E id \in UpdateIds, position \in PositionInputs : updateTrackPoint(id, position)
    \/ \E id \in TiltIds, tilt \in TiltInputs : updateTrackPointTilt(id, tilt)
    \/ \E id \in ArgIds : removeTrackPoint(id)
    \/ \E id \in ArgIds : createLoopAtPoint(id)
    \/ \E id \in SelectIds : selectPoint(id)
    \/ clearTrack
    \/ startRide
    \/ stopRide

Spec == Init /\ [][Next]_vars

----------------------------------------------------------------------------
(* Properties of the editor (Spec).                                         *)

IdSeq(points) == [i \in 1..Len(points) |-> points[i].id]

KeepIds(ids, keep) ==
    LET Kept(id) == id \in keep IN SelectSeq(ids, Kept)

PairwiseDistinct(points) ==
    \A i, j \in 1..Len(points) : i # j => points[i].id # points[j].id

(* C1: createLoopAtPoint(id) on a track of n points with the point at index *)
(* i gives the original points up to and including i, then exactly 20 new   *)
(* points with loop metadata, then exactly 3 new plain points when a next   *)
(* point existed and none otherwise, then the original points after i       *)
(* unchanged: the count grows by 23 or by 20.                               *)
C1_LoopSplice ==
    \A id \in ArgIds \cap Ids(store.trackPoints) :
        LET old == store.trackPoints
            n == Len(old)
            i == FindIndex(old, id)
            new == CreateLoopState(store, id, pointCounter).trackPoints
            blend == IF i < n THEN 3 ELSE 0
        IN /\ Len(new) = n + 20 + blend
           /\ \A k \in 1..i : new[k] = old[k]
           /\ \A k \in (i + 1)..(i + 20) :
                  HasLoopMeta(new[k]) /\ new[k].id \notin Ids(old)
           /\ \A k \in (i + 21)..(i + 20 + blend) :
                  ~HasLoopMeta(new[k]) /\ new[k].id \notin Ids(old)
           /\ \A k \in (i + 1)..n : new[k + 20 + blend] = old[k]
           /\ PairwiseDistinct(SubSeq(new, i + 1, i + 20 + blend))

(* A loop inserted at the first of two points: 20 loop points, 3 blend      *)
(* points, then the second point.                                           *)
C1_Witness ==
    /\ Len(store.trackPoints) = 25
    /\ store.trackPoints[1].id = 1
    /\ HasLoopMeta(store.trackPoints[2])
    /\ HasLoopMeta(store.trackPoints[21])
    /\ ~HasLoopMeta(store.trackPoints[22])
    /\ ~HasLoopMeta(store.trackPoints[24])
    /\ store.trackPoints[25].id = 2

(* C2: for an id that is no id of a point of the track, updateTrackPoint,   *)
(* updateTrackPointTilt, removeTrackPoint and createLoopAtPoint each leave  *)
(* the whole state as it was.                                               *)
C2_UnknownIdIsNoOp ==
    \A id \in ArgIds \ Ids(store.trackPoints) :
        /\ \A position \in PositionInputs :
               UpdateTrackPointState(store, id, position) = store
        /\ \A tilt \in TiltInputs :
               UpdateTrackPointTiltState(store, id, tilt) = store
        /\ RemoveTrackPointState(store, id) = store
        /\ CreateLoopState(store, id, pointCounter) = store

(* The ids common to the track before and after an operation are in the    *)
(* same order, and an id that enters the track was never issued before.     *)
IdsStable(old, new, counter) ==
    /\ KeepIds(IdSeq(new), Ids(old)) = KeepIds(IdSeq(old), Ids(new))
    /\ \A id \in Ids(new) \ Ids(old) : id > counter

(* C3: the ids of the points of the track are pairwise distinct, and        *)
(* addTrackPoint, updateTrackPoint, updateTrackPointTilt, removeTrackPoint, *)
(* createLoopAtPoint and clearTrack leave every point that stays in the     *)
(* track with its id, the new points taking ids never issued before.        *)
C3_IdsUniqueAndStable ==
    LET old == store.trackPoints
        Stable(after) == IdsStable(old, after.trackPoints, pointCounter)
    IN /\ PairwiseDistinct(old)
       /\ \A id \in Ids(old) : id <= pointCounter
       /\ \A position \in PositionInputs :
              /\ Stable(AddTrackPointState(store, position, pointCounter))
              /\ \A id \in UpdateIds : Stable(UpdateTrackPointState(store, id, position))
       /\ \A id \in TiltIds, tilt \in TiltInputs :
              Stable(UpdateTrackPointTiltState(store, id, tilt))
       /\ \A id \in ArgIds :
              /\ Stable(RemoveTrackPointState(store, id))
              /\ Stable(CreateLoopState(store, id, pointCounter))
       /\ Stable(ClearTrackState(store))

(* The first point removed (or cleared), a point added after it and a loop  *)
(* inserted at that point.                                                  *)
C3_Witness ==
    /\ Len(store.trackPoints) = 21
    /\ store.trackPoints[1].id = 2
    /\ store.trackPoints[2].id = 3
    /\ store.trackPoints[21].id = 22
    /\ PairwiseDistinct(store.trackPoints)

(* C4: createLoopAtPoint(id) only inserts: the points that were in the      *)
(* track are in the new track with the same id, position, tilt and loop     *)
(* metadata and in the same order, and selectedPointId, rideProgress,       *)
(* isRiding, mode, isLooped, hasChainLift and rideSpeed stay as they were.  *)
C4_LoopOnlyInserts ==
    \A id \in ArgIds :
        LET old == store.trackPoints
            after == CreateLoopState(store, id, pointCounter)
            WasThere(p) == p.id \in Ids(old)
        IN /\ SelectSeq(after.trackPoints, WasThere) = old
           /\ \A field \in DOMAIN store \ {"trackPoints"} :
                  after[field] = store[field]

(* A loop inserted during a ride, with the first point selected.            *)
C4_Witness ==
    /\ Len(store.trackPoints) > TotalLoopPoints
    /\ \E k \in 1..Len(store.trackPoints) : HasLoopMeta(store.trackPoints[k])
    /\ store.selectedPointId = 1
    /\ store.isRiding
    /\ store.mode = "ride"

(* C13: removeTrackPoint(id) for an id of the track takes exactly that      *)
(* point out, the points before and after it staying as they are and in     *)
(* their order; selectedPointId becomes null if it was id and stays as it   *)
(* was otherwise.                                                           *)
C13_RemoveExactlyThatPoint ==
    \A id \in Ids(store.trackPoints) :
        LET old == store.trackPoints
            i == FindIndex(old, id)
            after == RemoveTrackPointState(store, id)
        IN /\ after.trackPoints = SubSeq(old, 1, i - 1) \o SubSeq(old, i + 1, Len(old))
           /\ after.selectedPointId =
                  IF store.selectedPointId = id THEN NullId ELSE store.selectedPointId

(* The second of three points removed while the first was selected.         *)
C13_Witness ==
    /\ IdSeq(store.trackPoints) = <<1, 3>>
    /\ store.selectedPointId = 1
    /\ pointCounter = 3

(* C15: addTrackPoint(pos) appends one point: position pos, tilt 0, no loop *)
(* metadata, an id that is none of the ids 1..pointCounter issued so far;   *)
(* the points that were there stay as they are and in their order, and      *)
(* selectedPointId, rideProgress, isRiding and mode stay as they were.      *)
C15_AddAppendsFreshPoint ==
    \A position \in PositionInputs :
        LET old == store.trackPoints
            n == Len(old)
            after == AddTrackPointState(store, position, pointCounter)
            new == after.trackPoints[n + 1]
        IN /\ Len(after.trackPoints) = n + 1
           /\ SubSeq(after.trackPoints, 1, n) = old
           /\ new.position = position
           /\ new.tilt = 0
           /\ ~HasLoopMeta(new)
           /\ Ids(old) \subseteq 1..pointCounter
           /\ new.id \notin 1..pointCounter
           /\ \A field \in {"selectedPointId", "rideProgress", "isRiding", "mode"} :
                  after[field] = store[field]

(* A point added to a track of one point after two points were removed,     *)
(* during a ride.                                                           *)
C15_Witness ==
    /\ IdSeq(store.trackPoints) = <<2, 3>>
    /\ store.trackPoints[2].position = PosB
    /\ pointCounter = 3
    /\ store.isRiding

(* C16: updateTrackPoint(id, pos) changes the position of the point with    *)
(* that id and nothing else, updateTrackPointTilt(id, tilt) its tilt and    *)
(* nothing else: ids, the other fields of the point (loop metadata          *)
(* included), the other points, the length and order of the track and       *)
(* selectedPointId stay as they were.                                       *)
C16_UpdateChangesOneField ==
    \A id \in Ids(store.trackPoints) \cup {GhostId} :
        LET old == store.trackPoints
            Same(after, field) ==
                /\ Len(after.trackPoints) = Len(old)
                /\ \A k \in 1..Len(old) :
                       \A f \in DOMAIN old[k] :
                           (old[k].id # id \/ f # field) =>
                               after.trackPoints[k][f] = old[k][f]
                /\ after.selectedPointId = store.selectedPointId
        IN /\ \A position \in PositionInputs :
                  LET after == UpdateTrackPointState(store, id, position)
                  IN /\ Same(after, "position")
                     /\ \A k \in 1..Len(old) :
                            old[k].id = id => after.trackPoints[k].position = position
           /\ \A tilt \in TiltInputs :
                  LET after == UpdateTrackPointTiltState(store, id, tilt)
                  IN /\ Same(after, "tilt")
                     /\ \A k \in 1..Len(old) :
                            old[k].id = id => after.trackPoints[k].tilt = tilt

(* The tilt set on a point of a loop, the position of the first point       *)
(* changed, the second point selected.                                      *)
C16_Witness ==
    /\ \E k \in 1..Len(store.trackPoints) :
           /\ HasLoopMeta(store.trackPoints[k])
           /\ store.trackPoints[k].tilt = 15
    /\ store.trackPoints[1].id = 1
    /\ store.trackPoints[1].position = PosB
    /\ store.selectedPointId = 1

----------------------------------------------------------------------------
(* Properties of the sections (Spec).                                       *)

DistinctPair(points) ==
    \E i, j \in 1..Len(points) : points[i].position # points[j].position

(* C9: for a track of at least 2 points with two of them at different       *)
(* positions the section list is non-empty, starts at progress 0, ends at   *)
(* progress 1, every section has startProgress <= endProgress and starts    *)
(* where the one before it ends, in the order of the control points.        *)
C9_SectionsPartition ==
    (Len(store.trackPoints) >= 2 /\ DistinctPair(store.trackPoints)) =>
        LET built == SectionsOf(store)
            sections == built.sections
        IN /\ ~built.threw
           /\ Len(sections) > 0
           /\ sections[1].startProgress = 0
           /\ sections[Len(sections)].endProgress = SectionOne
           /\ \A k \in 1..Len(sections) :
                  sections[k].startProgress <= sections[k].endProgress
           /\ \A k \in 2..Len(sections) :
                  /\ sections[k].startProgress = sections[k - 1].endProgress
                  /\ sections[k].point > sections[k - 1].point

(* C10: the section list has, for each control point in order, one loop     *)
(* section of arc length 2*pi*radius if the point carries loop metadata,    *)
(* and otherwise one spline section unless the point is the last point of   *)
(* an open track.                                                           *)
C10_LoopSectionsFromLoopMeta ==
    Len(store.trackPoints) >= 2 =>
        LET points == store.trackPoints
            built == SectionsOf(store)
            sections == built.sections
            Emits(i) == HasLoopMeta(points[i]) \/ i < Len(points) \/ store.isLooped
            emitting == {i \in 1..Len(points) : Emits(i)}
        IN /\ ~built.threw
           /\ {sections[k].point : k \in 1..Len(sections)} = emitting
           /\ Len(sections) = Cardinality(emitting)
           /\ \A k \in 1..Len(sections) :
                  LET p == points[sections[k].point]
                  IN IF HasLoopMeta(p)
                     THEN /\ sections[k].type = "loop"
                          /\ sections[k].arcLength = LoopArcLength(p.loopMeta.radius)
                     ELSE sections[k].type = "spline"

(* Progress values handed to the sampler, NaN and values outside [0, 1]     *)
(* among them, and poses a frame may find.                                  *)
ProgressInputs == {NaN, 0, PScale \div 2, PScale, 2 * PScale}
PoseInputs ==
    {NoPose,
     [posed |-> TRUE, numeric |-> TRUE, position |-> PosB,
      tangent |-> DefaultForward, up |-> WorldUp]}

(* C11: a track of fewer than 2 points has an empty section list; with an   *)
(* empty section list the hybrid sampler gives no sample for any progress;  *)
(* a frame of the car that gets no sample leaves the pose of the car as it  *)
(* is.                                                                      *)
C11_NoSectionsNoSample ==
    LET built == SectionsOf(store)
    IN /\ Len(store.trackPoints) < 2 => ~built.threw /\ built.sections = <<>>
       /\ \A progress \in ProgressInputs :
              sampleHybridTrack(progress, <<>>, LoopSegmentsOf(store),
                                store.trackPoints, store.isLooped) = NoSample
       /\ built.sections = <<>> =>
              \A pose \in PoseInputs : CarFrame(store, pose) = pose

(* A ride under way whose track was cut down to one point: the car's mesh   *)
(* is there, its frame runs and finds no curve.                             *)
C11_Witness ==
    /\ store.isRiding
    /\ store.mode = "ride"
    /\ Len(store.trackPoints) = 1
    /\ SectionsOf(store).sections = <<>>

----------------------------------------------------------------------------
(* The ride: a track built beforehand with the store's own operations, its  *)
(* first point selected, then startRide, stopRide, clearTrack, the settings *)
(* and the frames.                                                          *)

MaxId(points) ==
    IF Len(points) = 0 THEN 0
    ELSE CHOOSE m \in Ids(points) : \A k \in Ids(points) : k <= m

InitRide ==
    /\ \E t \in SettingsTracks :
           /\ store = Set(InitialState, [trackPoints |-> t, selectedPointId |-> t[1].id])
           /\ pointCounter = MaxId(t)
           /\ curveMemo = FullMemo(t)
    /\ maxHeightReached = 0
    /\ frameDelta = 0
    /\ camera = CameraDefaults

NextRide ==
    \/ startRide
    \/ stopRide
    \/ clearTrack
    \/ \E looped \in BOOLEAN : setIsLooped(looped)
    \/ \E hasChain \in BOOLEAN : setHasChainLift(hasChain)
    \/ \E speed \in SpeedInputs : setRideSpeed(speed)
    \/ \E delta \in DeltaInputs : Tick(delta)

SpecRide == InitRide /\ [][NextRide]_vars

(* Rides on the track with a loop and on the track straight up, with and    *)
(* without chain lift: startRide, stopRide and the frames.                  *)
InitCamera ==
    /\ \E t \in CameraTracks, chain \in BOOLEAN :
           /\ store = Set(InitialState, [trackPoints |-> t, hasChainLift |-> chain])
           /\ pointCounter = MaxId(t)
           /\ curveMemo = FullMemo(t)
    /\ maxHeightReached = 0
    /\ frameDelta = 0
    /\ camera = CameraDefaults

NextCamera ==
    \/ startRide
    \/ stopRide
    \/ \E delta \in DeltaInputs : Tick(delta)

SpecCamera == InitCamera /\ [][NextCamera]_vars

(* The ride on an open track of positive length, as the end-to-end run      *)
(* takes it: startRide, then one frame after the other with the same frame  *)
(* time.  The render loop calls the frame callback again and again, hence   *)
(* the weak fairness of the frame.  The frame times are long enough for a   *)
(* frame to advance the progress by a step of the model's resolution.       *)
FairTracks == {t \in RideTracks : CurveExists(t) /\ GetLength(t, FALSE) > 0}
FairSpeeds == {5, 10}
FairDeltas == {2000, 10000}

InitRideFair ==
    /\ \E t \in FairTracks, chain \in BOOLEAN, speed \in FairSpeeds :
           /\ store = Set(InitialState, [trackPoints |-> t, hasChainLift |-> chain,
                                         rideSpeed |-> speed])
           /\ pointCounter = MaxId(t)
    /\ maxHeightReached = 0
    /\ frameDelta \in FairDeltas
    /\ curveMemo = NoMemo
    /\ camera = CameraDefaults

NextRideFair ==
    \/ ~store.isRiding /\ startRide
    \/ Tick(frameDelta)

SpecRideFair ==
    InitRideFair /\ [][NextRideFair]_vars /\ WF_vars(Tick(frameDelta))

----------------------------------------------------------------------------
(* Properties of the ride (SpecRide, SpecRideFair).                         *)

(* C5: startRide() on fewer than 2 points leaves mode, isRiding and         *)
(* rideProgress as they were; on 2 or more points it sets rideProgress 0,   *)
(* isRiding true and mode "ride" from any state, and the first frame is in  *)
(* the chain-lift phase exactly if hasChainLift is true.                    *)
C5_StartRide ==
    LET after == StartRideState(store)
    IN IF Len(store.trackPoints) < 2
       THEN /\ after.mode = store.mode
            /\ after.isRiding = store.isRiding
            /\ after.rideProgress = store.rideProgress
       ELSE /\ after.rideProgress = 0
            /\ after.isRiding
            /\ after.mode = "ride"
            /\ InChainLift(Memoized(curveMemo, after.trackPoints, after.isLooped),
                           after.hasChainLift, after.rideProgress)
                   <=> after.hasChainLift

(* A ride just started, without chain lift, from a ride that was under way  *)
(* (the height reached is above the start height).                          *)
C5_Witness ==
    /\ store.isRiding
    /\ store.mode = "ride"
    /\ store.rideProgress = 0
    /\ Len(store.trackPoints) >= 2
    /\ ~store.hasChainLift
    /\ ~store.isLooped
    /\ maxHeightReached > StartHeight(store.trackPoints, store.isLooped)

(* C6: on an open track of at least 2 points and positive length, with      *)
(* rideSpeed > 0, the frames after startRide() with a fixed frame time > 0  *)
(* eventually make isRiding false, and whenever no ride is running          *)
(* rideProgress is 0 and mode is "build".                                   *)
C6_OpenRideTerminates ==
    /\ store.isRiding ~> ~store.isRiding
    /\ [](~store.isRiding => store.rideProgress = 0 /\ store.mode = "build")

(* A ride that has run to the end of a rising track and stopped.            *)
C6_Witness ==
    /\ ~store.isRiding
    /\ store.mode = "build"
    /\ store.rideProgress = 0
    /\ maxHeightReached > 0
    /\ frameDelta > 0

(* C7: rideProgress is a number with 0 <= rideProgress < 1 in every state   *)
(* that startRide, stopRide, clearTrack and the frames reach.               *)
C7_ProgressInRange ==
    /\ IsNumber(store.rideProgress)
    /\ store.rideProgress >= 0
    /\ store.rideProgress < PScale

(* C8: on a closed track a frame whose new progress is >= 1 stores the new  *)
(* progress modulo 1, leaves isRiding true and mode "ride", and sets        *)
(* maxHeightReached to the height of the curve's start exactly if           *)
(* hasChainLift is true; without chain lift the wrap leaves maxHeightReached *)
(* as the frame's speed computation left it.                                *)
C8_ClosedTrackWrap ==
    \A delta \in DeltaInputs :
        LET points == store.trackPoints
            newProgress ==
                NewProgress(points, store.isLooped,
                            Memoized(curveMemo, points, store.isLooped),
                            store.hasChainLift, store.rideProgress, store.rideSpeed,
                            maxHeightReached, delta)
            currentHeight == CurveHeight(points, store.isLooped, store.rideProgress)
            after == TickState(store, curveMemo, maxHeightReached, delta)
        IN (TickRuns(store) /\ store.isLooped /\ AtLeastOne(newProgress)) =>
               /\ after.rideProgress = ModOne(newProgress)
               /\ after.isRiding
               /\ after.mode = "ride"
               /\ TickMaxHeight(store, curveMemo, maxHeightReached, delta) =
                      IF store.hasChainLift
                      THEN StartHeight(points, store.isLooped)
                      ELSE Max(maxHeightReached, currentHeight)

(* A closed track without chain lift after a wrap: the ride goes on past    *)
(* the start with the height it had reached.                                *)
C8_Witness ==
    /\ store.isRiding
    /\ store.isLooped
    /\ ~store.hasChainLift
    /\ IsNumber(store.rideProgress)
    /\ store.rideProgress > 0
    /\ Memoized(curveMemo, store.trackPoints, TRUE).length > 0
    /\ maxHeightReached > StartHeight(store.trackPoints, TRUE)
    /\ \E delta \in DeltaInputs :
           AtLeastOne(NewProgress(store.trackPoints, TRUE,
                                  Memoized(curveMemo, store.trackPoints, TRUE), FALSE,
                                  store.rideProgress, store.rideSpeed,
                                  maxHeightReached, delta))

(* C12: stopRide() leaves rideProgress 0, isRiding false and mode "build";  *)
(* a frame that comes while isRiding is false leaves rideProgress, isRiding *)
(* and mode as they are; whenever no ride is running rideProgress is 0.     *)
C12_StopRideHolds ==
    /\ LET after == StopRideState(store)
       IN /\ after.rideProgress = 0
          /\ ~after.isRiding
          /\ after.mode = "build"
    /\ ~store.isRiding =>
           /\ store.rideProgress = 0
           /\ \A delta \in DeltaInputs :
                  LET after == TickState(store, curveMemo, maxHeightReached, delta)
                  IN /\ after.rideProgress = store.rideProgress
                     /\ after.isRiding = store.isRiding
                     /\ after.mode = store.mode

(* A ride that climbed and was stopped, the track still there.              *)
C12_Witness ==
    /\ ~store.isRiding
    /\ store.mode = "build"
    /\ store.rideProgress = 0
    /\ CurveExists(store.trackPoints)
    /\ maxHeightReached > 0
    /\ maxHeightReached > StartHeight(store.trackPoints, store.isLooped)

(* C14: clearTrack() leaves the track empty, selectedPointId null,          *)
(* rideProgress 0 and isRiding false, from every state, rides under way     *)
(* included.                                                                *)
C14_ClearTrackResets ==
    LET after == ClearTrackState(store)
    IN /\ after.trackPoints = <<>>
       /\ after.selectedPointId = NullId
       /\ after.rideProgress = 0
       /\ ~after.isRiding

(* The track cleared during a ride that had climbed: the mode is still      *)
(* "ride".                                                                  *)
C14_Witness ==
    /\ store.trackPoints = <<>>
    /\ store.selectedPointId = NullId
    /\ store.rideProgress = 0
    /\ ~store.isRiding
    /\ store.mode = "ride"
    /\ maxHeightReached > 0

(* The control points of the track are at one height: so is every point of  *)
(* the curve through them, and only then.                                   *)
Level(points) ==
    \A i \in 1..Len(points) : points[i].position.y = points[1].position.y

(* C17: on a level track without loop points and without chain lift every   *)
(* frame of a ride takes the speed MIN_RIDE_SPEED * rideSpeed.              *)
C17_LevelTrackMinSpeed ==
    (/\ TickRuns(store)
     /\ Level(store.trackPoints)
     /\ \A i \in 1..Len(store.trackPoints) : ~HasLoopMeta(store.trackPoints[i])
     /\ ~store.hasChainLift) =>
        TickSpeed(store.trackPoints, store.isLooped,
                  Memoized(curveMemo, store.trackPoints, store.isLooped),
                  store.hasChainLift, store.rideProgress, store.rideSpeed,
                  maxHeightReached)
            = (((MIN_RIDE_SPEED * PosScale) \div 100) * store.rideSpeed) \div 10

(* A ride under way on the level track below height 0, without chain lift.  *)
C17_Witness ==
    /\ store.isRiding
    /\ store.trackPoints = TrackLevel
    /\ ~store.hasChainLift
    /\ store.rideSpeed > 0
    /\ IsNumber(store.rideProgress)
    /\ store.rideProgress > 0
    /\ maxHeightReached = PosD.y

----------------------------------------------------------------------------
(* Properties of the camera frame (SpecCamera).                             *)

(* C18: when a ride starts and none is under way, the first ride or a ride  *)
(* after a stop, the refs of the camera are at their defaults before the    *)
(* first frame: previousUp (0, 1, 0), previousRoll 0, previousPitchOffset   *)
(* 0, previousFov 75.                                                       *)
C18_RideStartsAtDefaults ==
    (~store.isRiding /\ Len(store.trackPoints) >= 2) =>
        RideStartCamera(store.trackPoints, store.isRiding,
                        StartRideState(store).isRiding, camera) = CameraDefaults

UpTolerance == 5

(* The up vector of the camera after a frame that stores newProgress. *)
UpAfterFrame(state, refs, newProgress) ==
    CameraFrame(state.trackPoints, state.isLooped, newProgress, refs).previousUp

(* Is up a unit vector across the tangent, within UpTolerance thousandths? *)
UnitAcross(up, tangent) ==
    /\ Abs(VLength(up) - VScale) <= UpTolerance
    /\ Abs(VDot(up, tangent)) <= UpTolerance

(* C19: after every frame of a ride that stores a new progress, on any      *)
(* track, previousUp has unit length and is orthogonal to the tangent at    *)
(* the new progress.                                                        *)
C19_UpUnitAndOrthogonal ==
    \A delta \in DeltaInputs :
        TickRuns(store) =>
            LET r == TickOf(store, curveMemo, maxHeightReached, delta)
            IN (~r.stop /\ IsNumber(r.rideProgress)) =>
                   UnitAcross(UpAfterFrame(store, camera, r.rideProgress),
                              GetTangent(store.trackPoints, store.isLooped,
                                         r.rideProgress))

----------------------------------------------------------------------------
(* The exit blend of a loop on tracks of four points (SpecKnot): the loop   *)
(* is inserted at the second point of an open track whose points are 10     *)
(* apart along x, level or rising by 2, straight or bent sideways by the    *)
(* helix separation.                                                        *)

(* The helix separation in position units. *)
Sideways == (HelixSeparationTenths * PosScale) \div 10

KnotTracks ==
    {BuiltTrack(<<PosA, Vec(10 * PosScale, y1, 0), Vec(20 * PosScale, y2, z2),
                  Vec(30 * PosScale, y3, z3)>>) :
         y1 \in {0, 2 * PosScale}, y2 \in {0, 2 * PosScale},
         y3 \in {0, 2 * PosScale},
         z2 \in {0 - Sideways, 0, Sideways},
         z3 \in {0 - Sideways, 0, Sideways}}

InitKnot ==
    /\ \E t \in KnotTracks :
           /\ store = Set(InitialState, [trackPoints |-> t])
           /\ pointCounter = MaxId(t)
    /\ maxHeightReached = 0
    /\ frameDelta = 0
    /\ curveMemo = NoMemo
    /\ camera = CameraDefaults

NextKnot == \E id \in {2} : createLoopAtPoint(id)

SpecKnot == InitKnot /\ [][NextKnot]_vars

(* cos(10 degrees), scaled by VScale *)
KnotCosine == 985

(* The parameters of the curve through four points between its second and   *)
(* its third point.                                                         *)
EntryToNext == (PScale \div 3)..((2 * PScale) \div 3 + 1)

(* C20: after createLoopAtPoint at the second point of an open track of     *)
(* four points the three points after the loop are the Hermite samples of   *)
(* the exit blend, and the tangent of the new curve at the last of them is  *)
(* within 10 degrees of the tangent the original curve has at some point    *)
(* between the entry point and the next point.                              *)
C20_NoKnotAfterLoop ==
    (Len(store.trackPoints) = 4 /\ ~store.isLooped) =>
        LET old == store.trackPoints
            after == CreateLoopState(store, old[2].id, pointCounter).trackPoints
            loopPoints == SubSeq(after, 3, 2 + TotalLoopPoints)
            last == (2 + TotalLoopPoints) + TransitionSamples
            tangent == TangentAtPoint(after, FALSE, last - 1)
        IN /\ Len(after) = 4 + TotalLoopPoints + TransitionSamples
           /\ SubSeq(after, last - TransitionSamples + 1, last)
                  = TransitionPoints(old, 2, loopPoints, pointCounter + TotalLoopPoints)
           /\ \E t \in EntryToNext :
                  VDot(tangent, GetTangent(old, FALSE, t)) >= KnotCosine

----------------------------------------------------------------------------
(* Properties of the hybrid sampler, on the section lists the sections memo *)
(* builds for the tracks of SpecKnot, open and closed, from a loopSegments  *)
(* that is the empty list.                                                  *)

(* Progress values handed to the sampler: numbers below 0, in [0, 1), 1 and *)
(* above 1.                                                                 *)
SamplerInputs == {0 - PScale, 0, PScale \div 3, PScale - 1, PScale, 2 * PScale}

(* Do the sections cut [0, 1) into consecutive pieces? *)
Partitions(sections) ==
    /\ Len(sections) > 0
    /\ \A k \in 1..Len(sections) :
           /\ IsNumber(sections[k].startProgress)
           /\ IsNumber(sections[k].endProgress)
           /\ sections[k].startProgress <= sections[k].endProgress
    /\ sections[1].startProgress = 0
    /\ sections[Len(sections)].endProgress = SectionOne
    /\ \A k \in 2..Len(sections) :
           sections[k].startProgress = sections[k - 1].endProgress

SectionHolds(section, progress) ==
    progress >= section.startProgress /\ progress < section.endProgress

(* The sampler's choice for one progress on one section list. *)
SamplerPicksRight(sections, progress) ==
    Bind(ClampProgress(progress), LAMBDA clamped :
        Bind(SectionIndex(clamped, sections), LAMBDA k :
            /\ clamped = Max(0, Min(progress * (SectionOne \div PScale), SectionOne - 1))
            /\ SectionHolds(sections[k], clamped)
            /\ \A j \in 1..(k - 1) : ~SectionHolds(sections[j], clamped)
            /\ sections[k].endProgress # sections[k].startProgress
            /\ LocalT(clamped, sections[k]) >= 0
            /\ LocalT(clamped, sections[k]) < SectionOne))

----------------------------------------------------------------------------
(* Properties of the speed of a frame (SpecCamera).                         *)

(* A speed of the configuration in 1/PosScale world units per second, times *)
(* the ride speed.                                                          *)
TimesRideSpeed(speed, rideSpeed) == (speed * rideSpeed) \div 10

(* C22: the speed of a frame is CHAIN_SPEED * rideSpeed if hasChainLift is  *)
(* true and rideProgress < firstPeakT, whatever the height; otherwise it is *)
(* max(MIN_RIDE_SPEED, e) * rideSpeed with e the energy speed of the drop   *)
(* from maxHeightReached, raised to the current height first, and inside a  *)
(* loop max(LOOP_MIN_SPEED, that * LOOP_SPEED_BOOST).  The drop is never    *)
(* negative, the free-roll speed never below MIN_RIDE_SPEED * rideSpeed,    *)
(* and the frame leaves maxHeightReached at the raised value.               *)
C22_SpeedByPhase ==
    TickRuns(store) =>
        Bind(<<Memoized(curveMemo, store.trackPoints, store.isLooped),
               CurveHeight(store.trackPoints, store.isLooped, store.rideProgress)>>,
             LAMBDA at :
        LET curve == at[1]
            currentHeight == at[2]
            raised == IF maxHeightReached >= currentHeight THEN maxHeightReached
                                                           ELSE currentHeight
            heightDrop == raised - currentHeight
            free == Isqrt(((196 * GRAVITY_SCALE * heightDrop) \div 100) * PosScale)
            boosted == (free * LOOP_SPEED_BOOST) \div 10
            loopFloor == (LOOP_MIN_SPEED * PosScale) \div 100
            rideFloor == (MIN_RIDE_SPEED * PosScale) \div 100
            inLoop == IsInLoopAt(store.trackPoints, store.rideProgress)
            e == IF ~inLoop THEN free
                 ELSE IF boosted >= loopFloor THEN boosted ELSE loopFloor
            speed == TickSpeed(store.trackPoints, store.isLooped, curve,
                               store.hasChainLift, store.rideProgress,
                               store.rideSpeed, maxHeightReached)
        IN /\ heightDrop >= 0
           /\ IF store.hasChainLift /\ store.rideProgress < curve.firstPeakT
              THEN speed = (CHAIN_SPEED * PosScale * store.rideSpeed) \div 1000
              ELSE /\ speed = TimesRideSpeed(IF e >= rideFloor THEN e ELSE rideFloor,
                                             store.rideSpeed)
                   /\ speed >= TimesRideSpeed(rideFloor, store.rideSpeed)
           /\ \A delta \in DeltaInputs :
                  LET r == TickOf(store, curveMemo, maxHeightReached, delta)
                  IN (~store.isLooped \/ ~store.hasChainLift \/ r.stop) =>
                         r.maxHeightReached = raised)

(* A ride without chain lift climbing inside the loop: no drop, the speed   *)
(* is the minimum speed of a loop.                                          *)
C22_Witness ==
    /\ store.isRiding
    /\ ~store.hasChainLift
    /\ IsNumber(store.rideProgress)
    /\ store.rideProgress > 0
    /\ IsInLoopAt(store.trackPoints, store.rideProgress)
    /\ maxHeightReached <=
           CurveHeight(store.trackPoints, store.isLooped, store.rideProgress)
    /\ TickSpeed(store.trackPoints, store.isLooped,
                 Memoized(curveMemo, store.trackPoints, store.isLooped),
                 store.hasChainLift, store.rideProgress, store.rideSpeed,
                 maxHeightReached)
           = TimesRideSpeed((LOOP_MIN_SPEED * PosScale) \div 100, store.rideSpeed)

----------------------------------------------------------------------------
(* Properties of firstPeakT, on the tracks of SpecKnot, open and closed.    *)

(* The peak of a scan over the parameters 0, 0.01, ... last/100, said in    *)
(* one piece: from the first parameter with a climb on, the peak at t is    *)
(* the first parameter of the greatest height so far; the scan ends at the  *)
(* first parameter with a descent that lies after its peak, or at last.     *)
ScannedPeak(points, closed, last) ==
    Bind([t \in 0..last |->
             [height |-> GetPoint(points, closed, t * (PScale \div 100)).y,
              slope |-> GetTangent(points, closed, t * (PScale \div 100)).y]],
         LAMBDA at :
        LET climbs == {t \in 0..last : 10 * at[t].slope > VScale}
            first == CHOOSE c \in climbs : \A d \in climbs : c <= d
            PeakAt(t) ==
                CHOOSE u \in first..t :
                    /\ \A v \in first..t : at[v].height <= at[u].height
                    /\ \A v \in first..(u - 1) : at[v].height < at[u].height
            ends == {t \in first..last :
                         10 * at[t].slope < 0 - VScale /\ t > PeakAt(t)}
            end == IF ends = {} THEN last
                   ELSE CHOOSE e \in ends : \A f \in ends : e <= f
        IN IF climbs = {} THEN 0 ELSE PeakAt(end) * (PScale \div 100))

(* firstPeakT as a scan over 0, 0.01, ... last/100 gives it. *)
PeakOfScan(points, closed, last) ==
    Bind(ScannedPeak(points, closed, last), LAMBDA peak :
        IF peak > 0 THEN peak ELSE PScale \div 5)

(* C23: for a track of at least 2 points firstPeakT is the parameter of the *)
(* highest point seen once a climb (tangent.y > 0.1) was detected, scanning *)
(* t = 0, 0.01, ... up to 0.5 and stopping at the first descent             *)
(* (tangent.y < -0.1) after that peak, and 0.2 when there is no such peak;  *)
(* 0 < firstPeakT <= 0.5.                                                   *)
C23_FirstPeak ==
    Len(store.trackPoints) >= 2 =>
        \A closed \in BOOLEAN :
            Bind(firstPeakT(store.trackPoints, closed), LAMBDA peak :
                /\ peak = PeakOfScan(store.trackPoints, closed, PScale \div 2)
                /\ peak > 0
                /\ 2 * peak <= PScale)

----------------------------------------------------------------------------
(* Properties of the loop metadata (Spec).                                  *)

(* Unit length of a normalized offset of the given length, to the rounding  *)
(* of positions: one position step in the length of the offset.             *)
UnitToRounding(v, length) == Abs(VLength(v) - VScale) * length <= 2 * VScale

(* C24: the forward direction in the metadata of a loop made by             *)
(* createLoopAtPoint is (1,0,0) when the entry point is the first point or  *)
(* its horizontal offset from the previous point is shorter than 0.1, and   *)
(* that offset normalized otherwise; it has unit length and no height, and  *)
(* up is (0,1,0).                                                           *)
C24_LoopForward ==
    \A id \in ArgIds \cap Ids(store.trackPoints) :
        LET old == store.trackPoints
            i == FindIndex(old, id)
            after == CreateLoopState(store, id, pointCounter).trackPoints
            offset == IF i > 1 THEN VSub(old[i].position, old[i - 1].position)
                               ELSE Vec(0, 0, 0)
            flat == Vec(offset.x, 0, offset.z)
            short == 100 * (flat.x * flat.x + flat.z * flat.z) < PosScale * PosScale
            expected == IF i = 1 \/ short THEN Vec(VScale, 0, 0) ELSE VNormalize(flat)
        IN \A k \in (i + 1)..(i + TotalLoopPoints) :
               /\ HasLoopMeta(after[k])
               /\ after[k].loopMeta.forward = expected
               /\ after[k].loopMeta.forward.y = 0
               /\ IF i = 1 \/ short
                  THEN VLength(after[k].loopMeta.forward) = VScale
                  ELSE UnitToRounding(after[k].loopMeta.forward, VLength(flat))
               /\ after[k].loopMeta.up = Vec(0, VScale, 0)

(* Loops on a second point that lies where the first does, and on a second  *)
(* point that lies higher and further along than the first.                 *)
C24_Witness ==
    /\ Len(store.trackPoints) > TotalLoopPoints
    /\ store.trackPoints[2].id = 2
    /\ HasLoopMeta(store.trackPoints[3])
    /\ store.trackPoints[3].loopMeta.entryPos = store.trackPoints[2].position
    /\ store.trackPoints[3].loopMeta.forward = DefaultForward
    /\ \/ store.trackPoints[1].position = store.trackPoints[2].position
       \/ /\ store.trackPoints[1].position = PosA
          /\ store.trackPoints[2].position = PosB

----------------------------------------------------------------------------
(* Properties of the ride state of the store (SpecRide).                    *)

(* C25: after any sequence of the editing operations, startRide, stopRide   *)
(* and frames, isRiding is true exactly when mode is "ride".                *)
C25_RidingIffRideMode == store.isRiding <=> store.mode = "ride"

(* One direction of it: a ride in progress is always in mode "ride".        *)
RidingOnlyInRideMode == store.isRiding => store.mode = "ride"

----------------------------------------------------------------------------
(* The editor with selectPoint called only with null or with the id of a    *)
(* point of the track (SpecSelect).                                         *)

SelectInputs == {1, 2, MaxAdds + 1}
SelectableIds == {NullId} \cup (Ids(store.trackPoints) \cap SelectInputs)

NextSelect ==
    \/ \E position \in PositionInputs : addTrackPoint(position)
    \/ \E id \in UpdateIds, position \in PositionInputs : updateTrackPoint(id, position)
    \/ \E id \in TiltIds, tilt \in TiltInputs : updateTrackPointTilt(id, tilt)
    \/ \E id \in ArgIds : removeTrackPoint(id)
    \/ \E id \in ArgIds : createLoopAtPoint(id)
    \/ \E id \in SelectableIds : selectPoint(id)
    \/ clearTrack

SpecSelect == Init /\ [][NextSelect]_vars

(* C26: when selectPoint is only called with null or with the id of a point *)
(* of the track, selectedPointId is null or the id of a point of the track  *)
(* after any sequence of the editing operations.                            *)
C26_SelectionInTrack ==
    store.selectedPointId \in {NullId} \cup Ids(store.trackPoints)

(* A point is selected on a track with a loop from which an older point has *)
(* been removed.                                                            *)
C26_Witness ==
    /\ store.selectedPointId = 2
    /\ 2 \in Ids(store.trackPoints)
    /\ 1 \notin Ids(store.trackPoints)
    /\ Len(store.trackPoints) > TotalLoopPoints

====
